---- MODULE Spec2Model ----
(***************************************************************************)
(* Model of src/app.py: a Flask order-taking application.                  *)
(*                                                                         *)
(* Text is a sequence of one-character strings, so that str.strip(), int() *)
(* and the f-string of enter_payment are computed, not assumed.  A Python  *)
(* dict (the session, request.form) is a function whose DOMAIN is the set  *)
(* of keys present.  A nullable column holds <<>> for NULL and <<v>> for a *)
(* value v.                                                                *)
(***************************************************************************)
EXTENDS Integers, Sequences, FiniteSets, TLC

VARIABLES users, orders, session, db_session, req, resp

vars == <<users, orders, session, db_session, req, resp>>

----------------------------------------------------------------------------
(* Bounds of the model.                                                    *)

\* PlaceOrder is not explored once the next Order.id would exceed this
MaxOrderId == 1

\* the largest Order.id explored where orders are deleted beside other orders
MaxDeleteOrderId == 2

\* the browser sessions (cookies) talking to the application; sessions share
\* nothing but the database
Sessions == {"s1"}

----------------------------------------------------------------------------
(* Text helpers.                                                           *)

Whitespace == {" ", "\t", "\n"}

Digits == <<"0", "1", "2", "3", "4", "5", "6", "7", "8", "9">>

RECURSIVE lstrip(_)
lstrip(t) == IF t # <<>> /\ Head(t) \in Whitespace THEN lstrip(Tail(t)) ELSE t

RECURSIVE rstrip(_)
rstrip(t) ==
    IF t # <<>> /\ t[Len(t)] \in Whitespace
    THEN rstrip(SubSeq(t, 1, Len(t) - 1))
    ELSE t

\* str.strip()
strip(t) == rstrip(lstrip(t))

IsDigit(c) == \E i \in 1..10 : Digits[i] = c

DigitVal(c) == (CHOOSE i \in 1..10 : Digits[i] = c) - 1

RECURSIVE DecimalVal(_)
DecimalVal(t) ==
    IF t = <<>> THEN 0
    ELSE 10 * DecimalVal(SubSeq(t, 1, Len(t) - 1)) + DigitVal(t[Len(t)])

\* int(text): [ok |-> FALSE] stands for the ValueError
int(t) ==
    LET u == strip(t)
        signed == u # <<>> /\ Head(u) \in {"+", "-"}
        body == IF signed THEN Tail(u) ELSE u
    IN  IF body = <<>> \/ \E i \in 1..Len(body) : ~IsDigit(body[i])
        THEN [ok |-> FALSE, val |-> 0]
        ELSE [ok |-> TRUE,
              val |-> IF signed /\ Head(u) = "-"
                      THEN 0 - DecimalVal(body) ELSE DecimalVal(body)]

\* dict.get(key, default)
Get(d, key, default) == IF key \in DOMAIN d THEN d[key] ELSE default

\* dict.pop(key, None)
Pop(d, key) == [k \in DOMAIN d \ {key} |-> d[k]]

\* d[key] = value
Put(d, key, value) == [k \in DOMAIN d \cup {key} |-> IF k = key THEN value ELSE d[k]]

EmptyDict == [k \in {} |-> <<>>]

\* a nullable column
Null == <<>>

Some(v) == <<v>>

----------------------------------------------------------------------------
(* Password hashing, a one-way black box: the hash of a password is not    *)
(* the password, and a hash checks against exactly the password it was     *)
(* made from.                                                              *)

generate_password_hash(password) == <<"#">> \o password

\* a check that accepts every password
check_password_hash_any(hash, password) == TRUE

check_password_hash(hash, password) == hash = generate_password_hash(password)

----------------------------------------------------------------------------
(* The database: User and Order rows.                                      *)

\* the id SQLite gives the next row of a table whose primary key is a plain
\* Integer column: one more than the largest id in the table
NextId(table) ==
    IF table = {} THEN 1
    ELSE (CHOOSE r \in table : \A q \in table : q.id <= r.id).id + 1

\* Model.query.get(id): the set holding the row with this primary key, if any
QueryGet(table, id) == {r \in table : r.id = id}

\* User.query.filter_by(username=...).first()
UserByName(table, username) == {u \in table : u.username = username}

User(id, username, password_hash, role) ==
    [id |-> id, username |-> username, password_hash |-> password_hash, role |-> role]

Order(id, phone, address, cans, cooling, method, status, details, created_at) ==
    [id |-> id,
     customer_phone |-> phone,
     customer_address |-> address,
     cans |-> cans,
     cooling |-> cooling,
     payment_method |-> method,
     payment_status |-> status,
     payment_details |-> details,
     created_at |-> created_at]

\* the rows of init_db_and_users for one role: created only when both the
\* username and the password are configured and no row has the username
SeedUser(table, username, password, role) ==
    IF username # <<>> /\ password # <<>> /\ UserByName(table, username) = {}
    THEN table \cup {User(NextId(table), username, generate_password_hash(password), role)}
    ELSE table

init_db_and_users(env, table) ==
    SeedUser(SeedUser(table, env.ADMIN_USERNAME, env.ADMIN_PASSWORD, "admin"),
             env.MANAGER_USERNAME, env.MANAGER_PASSWORD, "manager")

----------------------------------------------------------------------------
(* Words the code writes or compares with.                                 *)

YES == <<"y", "e", "s">>
NO == <<"n", "o">>
OFFLINE == <<"o", "f", "f", "l", "i", "n", "e">>
ONLINE == <<"o", "n", "l", "i", "n", "e">>
PENDING == <<"p", "e", "n", "d", "i", "n", "g">>
PAID == <<"p", "a", "i", "d">>

----------------------------------------------------------------------------
(* Requests and responses.  req is the request last served, resp what was  *)
(* sent back for it.                                                       *)

Request(action, s, method, order_id, form) ==
    [action |-> action, sid |-> s, method |-> method, order_id |-> order_id, form |-> form]

Response(status, body, flash, data) ==
    [status |-> status, body |-> body, flash |-> flash, data |-> data]

\* redirect(url_for(endpoint)) after flash(message)
Redirect(endpoint, message) == Response(302, endpoint, message, <<>>)

\* the orderings of a set of orders by created_at, newest first; rows with
\* equal created_at come in any order
NewestFirst(rows) ==
    {q \in [1..Cardinality(rows) -> rows] :
        /\ \A i, j \in 1..Cardinality(rows) : i # j => q[i] # q[j]
        /\ \A i, j \in 1..Cardinality(rows) : i < j => q[i].created_at >= q[j].created_at}

----------------------------------------------------------------------------
(* The guards.  A guard yields ok = TRUE when the wrapped handler runs;    *)
(* otherwise the redirect it answers with and the session it leaves.       *)

\* require_customer also letting a logged-in staff session through
require_customer_or_staff(sess) ==
    IF "customer_phone" \notin DOMAIN sess /\ "staff_id" \notin DOMAIN sess
    THEN [ok |-> FALSE, session |-> sess, resp |-> Redirect("index", "")]
    ELSE [ok |-> TRUE, session |-> sess, resp |-> Redirect("", "")]

require_customer(sess) ==
    IF "customer_phone" \notin DOMAIN sess
    THEN [ok |-> FALSE, session |-> sess, resp |-> Redirect("index", "")]
    ELSE [ok |-> TRUE, session |-> sess, resp |-> Redirect("", "")]

\* require_staff without its role test: any resolvable staff account passes
require_staff_any_role(sess, role) ==
    IF "staff_id" \notin DOMAIN sess
    THEN [ok |-> FALSE, session |-> sess, resp |-> Redirect("staff_login", "")]
    ELSE IF QueryGet(users, sess["staff_id"]) = {}
    THEN [ok |-> FALSE, session |-> Pop(sess, "staff_id"),
          resp |-> Redirect("staff_login", "")]
    ELSE [ok |-> TRUE, session |-> sess, resp |-> Redirect("", "")]

\* require_staff treating a wrong role like a stale staff id
require_staff_drops_wrong_role(sess, role) ==
    IF "staff_id" \notin DOMAIN sess
    THEN [ok |-> FALSE, session |-> sess, resp |-> Redirect("staff_login", "")]
    ELSE IF QueryGet(users, sess["staff_id"]) = {}
    THEN [ok |-> FALSE, session |-> Pop(sess, "staff_id"),
          resp |-> Redirect("staff_login", "")]
    ELSE IF role # "" /\ (CHOOSE u \in QueryGet(users, sess["staff_id"]) : TRUE).role # role
    THEN [ok |-> FALSE, session |-> Pop(sess, "staff_id"),
          resp |-> Redirect("staff_login", "Permission denied.")]
    ELSE [ok |-> TRUE, session |-> sess, resp |-> Redirect("", "")]

\* require_staff leaving a stale staff id in the session
require_staff_keeps_stale(sess, role) ==
    IF "staff_id" \notin DOMAIN sess
    THEN [ok |-> FALSE, session |-> sess, resp |-> Redirect("staff_login", "")]
    ELSE IF QueryGet(users, sess["staff_id"]) = {}
    THEN [ok |-> FALSE, session |-> sess, resp |-> Redirect("staff_login", "")]
    ELSE IF role # "" /\ (CHOOSE u \in QueryGet(users, sess["staff_id"]) : TRUE).role # role
    THEN [ok |-> FALSE, session |-> sess,
          resp |-> Redirect("staff_dashboard", "Permission denied.")]
    ELSE [ok |-> TRUE, session |-> sess, resp |-> Redirect("", "")]

\* role = "" is require_staff() without a role (role=None)
require_staff(sess, role) ==
    IF "staff_id" \notin DOMAIN sess
    THEN [ok |-> FALSE, session |-> sess, resp |-> Redirect("staff_login", "")]
    ELSE IF QueryGet(users, sess["staff_id"]) = {}
    THEN [ok |-> FALSE, session |-> Pop(sess, "staff_id"),
          resp |-> Redirect("staff_login", "")]
    ELSE IF role # "" /\ (CHOOSE u \in QueryGet(users, sess["staff_id"]) : TRUE).role # role
    THEN [ok |-> FALSE, session |-> sess,
          resp |-> Redirect("staff_dashboard", "Permission denied.")]
    ELSE [ok |-> TRUE, session |-> sess, resp |-> Redirect("", "")]

\* the step of a request that its guard refuses
Refused(g, rq) ==
    /\ ~g.ok
    /\ session' = [session EXCEPT ![rq.sid] = g.session]
    /\ req' = rq
    /\ resp' = g.resp
    /\ UNCHANGED <<users, orders, db_session>>

\* the step of a request that answers without touching session or database
Answer(rq, response) ==
    /\ req' = rq
    /\ resp' = response
    /\ UNCHANGED <<users, orders, session, db_session>>

\* get_or_404 on an id no order has
NotFound(rq) ==
    /\ QueryGet(orders, rq.order_id) = {}
    /\ Answer(rq, Response(404, "Not Found", "", <<>>))

----------------------------------------------------------------------------
(* The routes.  s is the session of the request, form is request.form.     *)

index(s) ==
    Answer(Request("index", s, "GET", 0, EmptyDict), Response(200, "index.html", "", <<>>))

\* route_send_otp keeping a customer phone the session already holds
route_send_otp_first_wins(s, form) ==
    LET rq == Request("route_send_otp", s, "POST", 0, form)
        phone == strip(Get(form, "phone", <<>>))
    IN  IF phone = <<>>
        THEN Answer(rq, Redirect("index", "Enter phone number."))
        ELSE /\ session' = [session EXCEPT ![s] =
                               IF "customer_phone" \in DOMAIN @ THEN @
                               ELSE Put(@, "customer_phone", phone)]
             /\ req' = rq
             /\ resp' = Redirect("customer_dashboard", "Continuing with phone number.")
             /\ UNCHANGED <<users, orders, db_session>>

route_send_otp(s, form) ==
    LET rq == Request("route_send_otp", s, "POST", 0, form)
        phone == strip(Get(form, "phone", <<>>))
    IN  IF phone = <<>>
        THEN Answer(rq, Redirect("index", "Enter phone number."))
        ELSE /\ session' = [session EXCEPT ![s] = Put(@, "customer_phone", phone)]
             /\ req' = rq
             /\ resp' = Redirect("customer_dashboard", "Continuing with phone number.")
             /\ UNCHANGED <<users, orders, db_session>>

\* logout dropping the customer phone only
logout_customer_only(s) ==
    /\ session' = [session EXCEPT ![s] = Pop(@, "customer_phone")]
    /\ req' = Request("logout", s, "GET", 0, EmptyDict)
    /\ resp' = Redirect("index", "Logged out.")
    /\ UNCHANGED <<users, orders, db_session>>

logout(s) ==
    /\ session' = [session EXCEPT ![s] = EmptyDict]
    /\ req' = Request("logout", s, "GET", 0, EmptyDict)
    /\ resp' = Redirect("index", "Logged out.")
    /\ UNCHANGED <<users, orders, db_session>>

customer_dashboard(s) ==
    LET rq == Request("customer_dashboard", s, "GET", 0, EmptyDict)
        g == require_customer(session[s])
    IN  \/ Refused(g, rq)
        \/ /\ g.ok
           /\ \E listed \in NewestFirst({o \in orders :
                                o.customer_phone = session[s]["customer_phone"]}) :
                Answer(rq, Response(200, "customer_dashboard.html", "", listed))

\* the phone place_order files the order under
PlacePhone(sess, form) ==
    LET phone_from_form == strip(Get(form, "phone", <<>>))
    IN  IF phone_from_form # <<>> THEN phone_from_form
        ELSE Get(sess, "customer_phone", <<>>)

\* int(request.form.get("cans", 1)), 1 when int() raises
PlaceCans(form) ==
    IF "cans" \notin DOMAIN form THEN 1
    ELSE IF int(form["cans"]).ok THEN int(form["cans"]).val ELSE 1

\* the Order place_order builds
PlacedOrder(id, sess, form, now) ==
    Order(id,
          PlacePhone(sess, form),
          strip(Get(form, "address", <<>>)),
          PlaceCans(form),
          Get(form, "cooling", NO) = YES,
          Get(form, "payment_method", OFFLINE),
          PENDING,
          Null,
          now)

place_order(s, form, now) ==
    LET rq == Request("place_order", s, "POST", 0, form)
        g == require_customer(session[s])
        o == PlacedOrder(NextId(orders), session[s], form, now)
    IN  \/ Refused(g, rq)
        \/ /\ g.ok
           /\ IF o.customer_address = <<>> \/ o.customer_phone = <<>>
              THEN Answer(rq, Redirect("customer_dashboard", "Phone and Address are required."))
              ELSE /\ orders' = orders \cup {o}
                   /\ req' = rq
                   /\ resp' = Redirect("customer_dashboard", "Order placed.")
                   /\ UNCHANGED <<users, session, db_session>>

staff_login(s, method, form) ==
    LET rq == Request("staff_login", s, method, 0, form)
        username == Get(form, "username", <<>>)
        password == Get(form, "password", <<>>)
        found == UserByName(users, username)
    IN  IF method = "POST"
        THEN IF \E user \in found : check_password_hash(user.password_hash, password)
             THEN /\ session' = [session EXCEPT ![s] =
                                    Put(@, "staff_id", (CHOOSE user \in found : TRUE).id)]
                  /\ req' = rq
                  /\ resp' = Redirect("staff_dashboard", "Staff login OK.")
                  /\ UNCHANGED <<users, orders, db_session>>
             ELSE Answer(rq, Redirect("staff_login", "Invalid staff credentials."))
        ELSE Answer(rq, Response(200, "staff_login.html", "", <<>>))

staff_logout(s) ==
    /\ session' = [session EXCEPT ![s] = Pop(@, "staff_id")]
    /\ req' = Request("staff_logout", s, "GET", 0, EmptyDict)
    /\ resp' = Redirect("index", "Staff logged out.")
    /\ UNCHANGED <<users, orders, db_session>>

staff_dashboard(s) ==
    LET rq == Request("staff_dashboard", s, "GET", 0, EmptyDict)
        g == require_staff(session[s], "")
    IN  \/ Refused(g, rq)
        \/ /\ g.ok
           /\ \E listed \in NewestFirst(orders) :
                Answer(rq, Response(200, "staff_dashboard.html", "", listed))

\* the payment details taken as typed, without .strip()
PaymentDetails_unstripped(form) == Get(form, "payment_details", <<>>)

\* request.form.get("payment_details", "").strip()
PaymentDetails(form) == strip(Get(form, "payment_details", <<>>))

\* enter_payment storing the details without the staff username
Paid_unattributed(order, user, payment_details) ==
    [order EXCEPT !.payment_details = Some(payment_details), !.payment_status = PAID]

\* enter_payment storing the details but not the new status
Paid_status_kept(order, user, payment_details) ==
    [order EXCEPT !.payment_details = Some(user.username \o <<":", " ">> \o payment_details)]

\* enter_payment keeping the earlier details in front of the new ones
Paid_appending(order, user, payment_details) ==
    [order EXCEPT
        !.payment_details =
            IF @ = Null THEN Some(user.username \o <<":", " ">> \o payment_details)
            ELSE Some(@[1] \o <<";", " ">> \o user.username \o <<":", " ">> \o payment_details),
        !.payment_status = PAID]

\* the order as enter_payment leaves it
Paid(order, user, payment_details) ==
    [order EXCEPT !.payment_details = Some(user.username \o <<":", " ">> \o payment_details),
                  !.payment_status = PAID]

enter_payment(s, order_id, form) ==
    LET rq == Request("enter_payment", s, "POST", order_id, form)
        g == require_staff(session[s], "")
        payment_details == PaymentDetails(form)
    IN  \/ Refused(g, rq)
        \/ /\ g.ok
           /\ \/ NotFound(rq)
              \/ \E order \in QueryGet(orders, order_id),
                    user \in QueryGet(users, session[s]["staff_id"]) :
                   IF payment_details = <<>>
                   THEN Answer(rq, Redirect("staff_dashboard", "Enter payment details."))
                   ELSE /\ orders' = (orders \ {order}) \cup {Paid(order, user, payment_details)}
                        /\ req' = rq
                        /\ resp' = Redirect("staff_dashboard", "Payment recorded.")
                        /\ UNCHANGED <<users, session, db_session>>

\* Requests served at the same time.  Each request has its own db.session: it
\* holds the Order the request loaded, with the attributes the request has
\* assigned, until db.session.commit() writes them.  db_session[s] is Null
\* while no request of s is between its query and its commit.

\* an UPDATE that leaves alone a row some payment was recorded on before
Flushed_first_wins(row, loaded, order) ==
    IF row.payment_status = PAID THEN row
    ELSE [row EXCEPT !.payment_details = order.payment_details, !.payment_status = PAID]

\* the row after the UPDATE of a commit: the statement sets the columns whose
\* attribute differs from the value loaded, and no other column
Flushed(row, loaded, order) ==
    [row EXCEPT
        !.payment_details = IF order.payment_details # loaded.payment_details
                            THEN order.payment_details ELSE @,
        !.payment_status = IF order.payment_status # loaded.payment_status
                           THEN order.payment_status ELSE @]

\* enter_payment up to its commit: the guard passed, the order was found, the
\* details are not blank, and the two attributes are assigned
enter_payment_begin(s, order_id, form) ==
    LET g == require_staff(session[s], "")
        payment_details == PaymentDetails(form)
    IN  /\ db_session[s] = Null
        /\ g.ok
        /\ payment_details # <<>>
        /\ \E order \in QueryGet(orders, order_id),
              user \in QueryGet(users, session[s]["staff_id"]) :
             db_session' = [db_session EXCEPT ![s] =
                 Some([rq |-> Request("enter_payment", s, "POST", order_id, form),
                       loaded |-> order,
                       order |-> Paid(order, user, payment_details)])]
        /\ UNCHANGED <<users, orders, session, req, resp>>

\* db.session.commit() of enter_payment and the redirect after it
enter_payment_commit(s) ==
    /\ db_session[s] # Null
    /\ LET t == db_session[s][1]
       IN  /\ \E row \in QueryGet(orders, t.order.id) :
                  orders' = (orders \ {row}) \cup {Flushed(row, t.loaded, t.order)}
           /\ req' = t.rq
    /\ resp' = Redirect("staff_dashboard", "Payment recorded.")
    /\ db_session' = [db_session EXCEPT ![s] = Null]
    /\ UNCHANGED <<users, session>>

\* the order as the POST branch of edit_order leaves it
Edited(order, form) ==
    [order EXCEPT
        !.customer_address = Get(form, "customer_address", @),
        !.cans = IF "cans" \in DOMAIN form /\ int(form["cans"]).ok
                 THEN int(form["cans"]).val ELSE @,
        !.cooling = Get(form, "cooling", NO) = YES,
        !.payment_method = Get(form, "payment_method", @),
        !.payment_status = Get(form, "payment_status", @),
        !.payment_details = IF "payment_details" \in DOMAIN form
                            THEN Some(form["payment_details"]) ELSE @]

edit_order(s, method, order_id, form) ==
    LET rq == Request("edit_order", s, method, order_id, form)
        g == require_staff(session[s], "admin")
    IN  \/ Refused(g, rq)
        \/ /\ g.ok
           /\ \/ NotFound(rq)
              \/ \E order \in QueryGet(orders, order_id) :
                   IF method = "POST"
                   THEN /\ orders' = (orders \ {order}) \cup {Edited(order, form)}
                        /\ req' = rq
                        /\ resp' = Redirect("staff_dashboard", "Order updated.")
                        /\ UNCHANGED <<users, session, db_session>>
                   ELSE Answer(rq, Response(200, "edit_order.html", "", <<order>>))

\* delete_order emptying the table
delete_order_all(s, order_id) ==
    LET rq == Request("delete_order", s, "POST", order_id, EmptyDict)
        g == require_staff(session[s], "admin")
    IN  \/ Refused(g, rq)
        \/ /\ g.ok
           /\ \/ NotFound(rq)
              \/ \E order \in QueryGet(orders, order_id) :
                   /\ orders' = {}
                   /\ req' = rq
                   /\ resp' = Redirect("staff_dashboard", "Order deleted.")
                   /\ UNCHANGED <<users, session, db_session>>

delete_order(s, order_id) ==
    LET rq == Request("delete_order", s, "POST", order_id, EmptyDict)
        g == require_staff(session[s], "admin")
    IN  \/ Refused(g, rq)
        \/ /\ g.ok
           /\ \/ NotFound(rq)
              \/ \E order \in QueryGet(orders, order_id) :
                   /\ orders' = orders \ {order}
                   /\ req' = rq
                   /\ resp' = Redirect("staff_dashboard", "Order deleted.")
                   /\ UNCHANGED <<users, session, db_session>>

\* the 403 test skipped for a session that is logged in as staff
Forbidden_unless_staff(sess, order) ==
    /\ "staff_id" \notin DOMAIN sess
    /\ "customer_phone" \in DOMAIN sess
    /\ sess["customer_phone"] # order.customer_phone

\* the test of view_order that answers 403
Forbidden(sess, order) ==
    "customer_phone" \in DOMAIN sess /\ sess["customer_phone"] # order.customer_phone

view_order(s, order_id) ==
    LET rq == Request("view_order", s, "GET", order_id, EmptyDict)
    IN  \/ NotFound(rq)
        \/ \E order \in QueryGet(orders, order_id) :
             IF Forbidden(session[s], order)
             THEN Answer(rq, Response(403, "Forbidden", "", <<>>))
             ELSE Answer(rq, Response(200, "view_order.html", "", <<order>>))

----------------------------------------------------------------------------
(* Process start.  The module runs init_db_and_users() when it is loaded;  *)
(* data.db is either the file the previous run left or, when that file is  *)
(* gone, a new empty one.  The sessions are cookies the browsers keep.     *)

startup(env, fresh) ==
    /\ users' = init_db_and_users(env, IF fresh THEN {} ELSE users)
    /\ orders' = IF fresh THEN {} ELSE orders
    /\ req' = Request("startup", "", "", 0, EmptyDict)
    /\ resp' = Response(0, "", "", <<>>)
    /\ UNCHANGED <<session, db_session>>

----------------------------------------------------------------------------
(* Inputs.                                                                 *)

ADM == <<"a", "d", "m">>
MGR == <<"m", "g", "r">>
PW_ADM == <<"p", "a">>
PW_MGR == <<"p", "m">>

\* ADMIN_USERNAME, ADMIN_PASSWORD, MANAGER_USERNAME, MANAGER_PASSWORD; an
\* unset variable is None, which the code treats as it treats ""
Env(au, ap, mu, mp) ==
    [ADMIN_USERNAME |-> au, ADMIN_PASSWORD |-> ap,
     MANAGER_USERNAME |-> mu, MANAGER_PASSWORD |-> mp]

BothRoles == Env(ADM, PW_ADM, MGR, PW_MGR)

Envs ==
    {BothRoles,
     Env(ADM, PW_ADM, <<>>, <<>>),
     Env(<<>>, <<>>, MGR, PW_MGR),
     Env(ADM, <<>>, MGR, PW_MGR),
     Env(<<>>, <<>>, <<>>, <<>>)}

\* at a start data.db is the file the previous run left (FALSE) or a new one
Databases == {FALSE, TRUE}

PhoneForms == {EmptyDict, [phone |-> <<" ">>], [phone |-> <<"5">>], [phone |-> <<" ", "9", " ">>]}

LoginForms ==
    {EmptyDict,
     [username |-> ADM, password |-> PW_ADM],
     [username |-> ADM, password |-> PW_MGR],
     [username |-> MGR, password |-> PW_MGR],
     [username |-> <<"z">>, password |-> PW_ADM]}

\* what the steps of a specification are drawn from: the environments and
\* databases of a start, the forms of each POST, the created_at values
\* datetime.utcnow() gives, and the largest Order.id explored
Inputs ==
    [envs |-> Envs,
     fresh |-> Databases,
     phone |-> PhoneForms,
     login |-> LoginForms,
     place |-> {[address |-> <<"x">>],
                [address |-> <<" ">>],
                [phone |-> <<"9", " ">>, address |-> <<" ", "x">>]},
     times |-> {1},
     pay |-> {EmptyDict, [payment_details |-> <<" ">>], [payment_details |-> <<"c">>]},
     edit |-> {EmptyDict, [cans |-> <<"3">>]},
     max_order_id |-> MaxOrderId]

----------------------------------------------------------------------------
(* The specification.                                                      *)

Init ==
    /\ \E env \in Envs : users = init_db_and_users(env, {})
    /\ orders = {}
    /\ session = [s \in Sessions |-> EmptyDict]
    /\ db_session = [s \in Sessions |-> Null]
    /\ req = Request("startup", "", "", 0, EmptyDict)
    /\ resp = Response(0, "", "", <<>>)

\* a place_order request, explored while the Order.id it would give is in bounds
PlaceOrder(in) ==
    /\ NextId(orders) <= in.max_order_id
    /\ \E s \in Sessions, form \in in.place, now \in in.times : place_order(s, form, now)

\* one request, or one start of the process
Step(in) ==
    \/ \E env \in in.envs, fresh \in in.fresh : startup(env, fresh)
    \/ \E s \in Sessions : index(s)
    \/ \E s \in Sessions, form \in in.phone : route_send_otp(s, form)
    \/ \E s \in Sessions : logout(s)
    \/ \E s \in Sessions : customer_dashboard(s)
    \/ PlaceOrder(in)
    \/ \E s \in Sessions : staff_login(s, "GET", EmptyDict)
    \/ \E s \in Sessions, form \in in.login : staff_login(s, "POST", form)
    \/ \E s \in Sessions : staff_logout(s)
    \/ \E s \in Sessions : staff_dashboard(s)
    \/ \E s \in Sessions, order_id \in 1..(in.max_order_id + 1), form \in in.pay :
         enter_payment(s, order_id, form)
    \/ \E s \in Sessions, order_id \in 1..(in.max_order_id + 1) :
         edit_order(s, "GET", order_id, EmptyDict)
    \/ \E s \in Sessions, order_id \in 1..(in.max_order_id + 1), form \in in.edit :
         edit_order(s, "POST", order_id, form)
    \/ \E s \in Sessions, order_id \in 1..(in.max_order_id + 1) : delete_order(s, order_id)
    \/ \E s \in Sessions, order_id \in 1..(in.max_order_id + 1) : view_order(s, order_id)

Next == Step(Inputs)

\* sessions and access: every environment, kept and new databases, both
\* phones, right and wrong staff credentials
Spec == Init /\ [][Next]_vars

PaymentInputs ==
    [envs |-> {BothRoles},
     fresh |-> {FALSE},
     phone |-> {[phone |-> <<"5">>]},
     login |-> {[username |-> ADM, password |-> PW_ADM],
                [username |-> MGR, password |-> PW_MGR]},
     place |-> {[address |-> <<"x">>]},
     times |-> {1},
     pay |-> {EmptyDict, [payment_details |-> <<" ">>], [payment_details |-> <<"c">>],
              [payment_details |-> <<" ", "d", " ">>]},
     edit |-> {[payment_status |-> PENDING], [payment_status |-> PAID],
               [payment_details |-> <<"x">>]},
     max_order_id |-> MaxOrderId]

NextPayment == Step(PaymentInputs)

\* the payment life of the orders of one database: payments recorded by
\* either role, with different details, and admin edits of status and details
SpecPayment == Init /\ [][NextPayment]_vars

FieldInputs ==
    [envs |-> {BothRoles},
     fresh |-> {FALSE},
     phone |-> {[phone |-> <<"5">>]},
     login |-> {[username |-> ADM, password |-> PW_ADM]},
     place |-> {[address |-> <<"x">>],
                [address |-> <<"x">>, cans |-> <<"a", "b", "c">>],
                [address |-> <<"x">>, cans |-> <<"0">>],
                [address |-> <<"x">>, cans |-> <<"-", "1">>],
                [address |-> <<" ", "x", " ">>, cans |-> <<" ", "2">>, cooling |-> YES,
                 payment_method |-> ONLINE],
                [address |-> <<"x">>, payment_method |-> <<"u", "p", "i">>],
                [address |-> <<" ">>],
                [cans |-> <<"2">>]},
     times |-> {1, 2},
     pay |-> {[payment_details |-> <<"c">>]},
     edit |-> {EmptyDict,
               [cans |-> <<"a", "b", "c">>],
               [cans |-> <<"0">>],
               [cans |-> <<"4">>, cooling |-> YES],
               [customer_address |-> <<>>],
               [payment_method |-> <<"u", "p", "i">>],
               [payment_status |-> <<"v", "o", "i", "d">>]},
     max_order_id |-> MaxOrderId]

NextFields == Step(FieldInputs)

\* the fields of an order under the texts the order and edit forms may carry
SpecFields == Init /\ [][NextFields]_vars

DeleteInputs ==
    [envs |-> {BothRoles},
     fresh |-> {FALSE},
     phone |-> {[phone |-> <<"5">>]},
     login |-> {[username |-> ADM, password |-> PW_ADM],
                [username |-> MGR, password |-> PW_MGR]},
     place |-> {[address |-> <<"x">>]},
     times |-> {1},
     pay |-> {[payment_details |-> <<"c">>]},
     edit |-> {[cans |-> <<"3">>]},
     max_order_id |-> MaxDeleteOrderId]

NextDelete == Step(DeleteInputs)

\* several orders in one database: deletions beside orders that stay, and
\* requests for ids that were deleted or never given
SpecDelete == Init /\ [][NextDelete]_vars

\* the two browsers whose requests are served at the same time
RaceSessions == {"s1", "s2"}

\* the login and the payment forms each browser sends
RaceInputs ==
    [login |-> [s \in RaceSessions |->
                  IF s = "s1" THEN [username |-> ADM, password |-> PW_ADM]
                  ELSE [username |-> MGR, password |-> PW_MGR]],
     pay |-> {[payment_details |-> <<"c">>], [payment_details |-> <<" ", "d", " ">>]}]

\* the database two place_order requests of customer 5 leave, and two
\* browsers that are not logged in
InitRace ==
    /\ users = init_db_and_users(BothRoles, {})
    /\ orders = {PlacedOrder(id, [customer_phone |-> <<"5">>], [address |-> <<"x">>], id) :
                    id \in 1..2}
    /\ session = [s \in RaceSessions |-> EmptyDict]
    /\ db_session = [s \in RaceSessions |-> Null]
    /\ req = Request("startup", "", "", 0, EmptyDict)
    /\ resp = Response(0, "", "", <<>>)

NextRace ==
    \/ \E s \in RaceSessions : staff_login(s, "POST", RaceInputs.login[s])
    \/ \E s \in RaceSessions, order \in orders, form \in RaceInputs.pay :
         enter_payment_begin(s, order.id, form)
    \/ \E s \in RaceSessions : enter_payment_commit(s)

\* two staff browsers recording payments, every interleaving of the query and
\* the commit of their requests
SpecRace == InitRace /\ [][NextRace]_vars

----------------------------------------------------------------------------
(* Vocabulary of the properties.                                           *)

HasCustomer(sess) == "customer_phone" \in DOMAIN sess

HasStaff(sess) == "staff_id" \in DOMAIN sess

\* the accounts the staff id of a session resolves to (none or one)
StaffOf(sess) == IF HasStaff(sess) THEN QueryGet(users, sess["staff_id"]) ELSE {}

IsAdmin(sess) == \E u \in StaffOf(sess) : u.role = "admin"

IsManager(sess) == \E u \in StaffOf(sess) : u.role = "manager"

HasPrefix(t, prefix) == Len(t) >= Len(prefix) /\ SubSeq(t, 1, Len(prefix)) = prefix

\* payment_details reads "<username>: <details>" for this account
AttributedTo(o, u) ==
    /\ o.payment_details # Null
    /\ HasPrefix(o.payment_details[1], u.username \o <<":", " ">>)
    /\ Len(o.payment_details[1]) > Len(u.username) + 2

IsPaid(o) == o.payment_status = PAID /\ o.payment_details # Null

\* the step just taken served this kind of request
Served(action, method) == req'.action = action /\ req'.method = method

\* the step just taken is a POST to edit_order that updated order id
EditSubmitted(id) ==
    /\ Served("edit_order", "POST")
    /\ req'.order_id = id
    /\ resp'.flash = "Order updated."

\* the step just taken is an enter_payment that recorded a payment on order id
PaymentRecorded(id) ==
    /\ Served("enter_payment", "POST")
    /\ req'.order_id = id
    /\ resp'.flash = "Payment recorded."

----------------------------------------------------------------------------
(* Sessions and access (specification Spec).                               *)

\* C1: a POST to edit_order or to delete_order changes the order store only
\* when the staff id of the calling session resolves to an account whose role
\* is admin; with no staff id, an unresolvable staff id or a manager account
\* every order is left as it was and none is removed.
C1_OnlyAdminEditsOrDeletes ==
    [][(Served("edit_order", "POST") \/ Served("delete_order", "POST"))
         => /\ orders' # orders => IsAdmin(session[req'.sid])
            /\ ~IsAdmin(session[req'.sid]) => orders' = orders]_vars

\* a manager's delete_order of an existing order was refused
C1_ManagerRefused ==
    /\ req.action = "delete_order"
    /\ IsManager(session[req.sid])
    /\ resp.flash = "Permission denied."
    /\ QueryGet(orders, req.order_id) # {}

\* C2: a session never holds a customer phone and a staff id at the same time.
C2_AtMostOneIdentity ==
    \A s \in Sessions : ~(HasCustomer(session[s]) /\ HasStaff(session[s]))

\* C3: for a session holding a customer phone, view_order of an existing order
\* shows the order only if the session phone equals the order's customer_phone;
\* when the phones differ the answer is 403 Forbidden, not a redirect, and the
\* order is not shown, whatever else the session holds.
C3_CustomerSeesOnlyOwnOrder ==
    (req.action = "view_order" /\ HasCustomer(session[req.sid]))
        => \A order \in QueryGet(orders, req.order_id) :
             /\ resp.data # <<>> => session[req.sid]["customer_phone"] = order.customer_phone
             /\ session[req.sid]["customer_phone"] # order.customer_phone
                  => resp = Response(403, "Forbidden", "", <<>>)

\* a session holding a staff id and another customer's phone was answered 403
C3_ForbiddenDespiteStaff ==
    /\ req.action = "view_order"
    /\ HasStaff(session[req.sid])
    /\ \E order \in QueryGet(orders, req.order_id) :
         /\ HasCustomer(session[req.sid])
         /\ session[req.sid]["customer_phone"] # order.customer_phone
    /\ resp.status = 403

\* C4: view_order of an existing order from a session with no identity, or
\* from a session holding a staff id, is never refused: it shows the order.
C4_OpenReadForStaffAndAnonymous ==
    (/\ req.action = "view_order"
     /\ HasStaff(session[req.sid]) \/ ~HasCustomer(session[req.sid]))
        => \A order \in QueryGet(orders, req.order_id) :
             resp = Response(200, "view_order.html", "", <<order>>)

----------------------------------------------------------------------------
(* Payments (specification SpecPayment).                                   *)

\* C5, as claimed: every order that is paid and has payment_details reads
\* "<username>: <details>" for a staff account, whatever requests were served.
C5_PaidDetailsNameStaff ==
    \A o \in orders : IsPaid(o) => \E u \in users : AttributedTo(o, u)

\* C5, amended: an order that is paid with payment_details not reading
\* "<username>: <details>" is only ever produced by a POST to edit_order on that
\* order; place_order, enter_payment and delete_order never produce one, and a
\* recorded payment names the account of the session that recorded it.
C5_OnlyEditBreaksAttribution ==
    [][/\ \A o \in orders' :
            (IsPaid(o) /\ ~\E u \in users' : AttributedTo(o, u))
                => (o \in orders \/ EditSubmitted(o.id))
       /\ \A o \in orders' :
            PaymentRecorded(o.id)
                => IsPaid(o) /\ \E u \in StaffOf(session[req'.sid]) : AttributedTo(o, u)]_vars

\* a manager recorded a payment over one an admin had recorded
C5_PaymentReattributed ==
    /\ req.action = "enter_payment"
    /\ resp.flash = "Payment recorded."
    /\ IsManager(session[req.sid])
    /\ \E o \in QueryGet(orders, req.order_id) :
         IsPaid(o) /\ \E u \in StaffOf(session[req.sid]) : AttributedTo(o, u)

\* C6, as claimed: payment_status only moves from pending to paid and only
\* through an enter_payment that recorded a payment; an order is created
\* pending without payment_details and leaves the store only by delete_order.
C6_StatusOnlyPendingToPaid ==
    [][/\ \A n \in orders' :
            QueryGet(orders, n.id) = {}
                => n.payment_status = PENDING /\ n.payment_details = Null
       /\ \A o \in orders : \A n \in QueryGet(orders', o.id) :
            n.payment_status # o.payment_status
                => /\ o.payment_status = PENDING
                   /\ n.payment_status = PAID
                   /\ PaymentRecorded(o.id)
       /\ \A o \in orders :
            QueryGet(orders', o.id) = {}
                => Served("delete_order", "POST") /\ req'.order_id = o.id]_vars

\* C6, amended: payment_status changes only through an enter_payment that
\* recorded a payment, which leaves it paid, or through a POST to edit_order,
\* which leaves it as the form says (paid back to pending included); an order
\* is created pending without payment_details by place_order and leaves the
\* store only by delete_order.
C6_StatusChangesByPaymentOrEdit ==
    [][/\ \A n \in orders' :
            QueryGet(orders, n.id) = {}
                => /\ n.payment_status = PENDING
                   /\ n.payment_details = Null
                   /\ Served("place_order", "POST")
       /\ \A o \in orders : \A n \in QueryGet(orders', o.id) :
            /\ PaymentRecorded(o.id) => n.payment_status = PAID
            /\ n.payment_status # o.payment_status
                 => PaymentRecorded(o.id) \/ EditSubmitted(o.id)
       /\ \A o \in orders :
            QueryGet(orders', o.id) = {}
                => Served("delete_order", "POST") /\ req'.order_id = o.id]_vars

\* an edit_order set an order with a recorded payment back to pending
C6_PaidSetBackByEdit ==
    /\ req.action = "edit_order"
    /\ req.form = [payment_status |-> PENDING]
    /\ resp.flash = "Order updated."
    /\ \E o \in QueryGet(orders, req.order_id) :
         o.payment_status = PENDING /\ \E u \in users : AttributedTo(o, u)

\* C10: enter_payment on an existing order with payment details that are
\* missing, empty or all whitespace changes no order, and a session that
\* passes the staff guard is answered with the validation message.
C10_BlankPaymentChangesNothing ==
    [][(/\ Served("enter_payment", "POST")
        /\ QueryGet(orders, req'.order_id) # {}
        /\ \A i \in 1..Len(Get(req'.form, "payment_details", <<>>)) :
             Get(req'.form, "payment_details", <<>>)[i] \in Whitespace)
         => /\ orders' = orders
            /\ StaffOf(session[req'.sid]) # {}
                 => resp' = Redirect("staff_dashboard", "Enter payment details.")]_vars

\* all-whitespace details were refused on an order whose payment was recorded
C10_BlankRefusedOnPaidOrder ==
    /\ req.action = "enter_payment"
    /\ req.form = [payment_details |-> <<" ">>]
    /\ resp.flash = "Enter payment details."
    /\ \E o \in QueryGet(orders, req.order_id) : IsPaid(o)

----------------------------------------------------------------------------
(* Order fields (specification SpecFields).                                *)

\* C7: every stored order has payment_status pending or paid and
\* payment_method online or offline, whatever the forms submit.
C7_StatusAndMethodInDomain ==
    \A o \in orders :
        /\ o.payment_status \in {PENDING, PAID}
        /\ o.payment_method \in {ONLINE, OFFLINE}

\* C8: every stored order has cans >= 1, whatever cans text the forms submit.
C8_CansAtLeastOne == \A o \in orders : o.cans >= 1

\* C9: every stored order has a non-empty customer_phone and a non-empty
\* customer_address.
C9_PhoneAndAddressNonEmpty ==
    \A o \in orders : o.customer_phone # <<>> /\ o.customer_address # <<>>

----------------------------------------------------------------------------
(* What a recorded payment stores (specification SpecPayment).             *)

\* the payment_details text of the request just served, as typed
RawDetails == Get(req'.form, "payment_details", <<>>)

\* C11, as claimed: enter_payment by any staff account on an existing order,
\* with details that are non-empty after trimming, leaves the order paid with
\* payment_details = username, ": ", the details as typed, whatever the order
\* held before.
C11_StoresDetailsAsTyped ==
    [][(Served("enter_payment", "POST") /\ strip(RawDetails) # <<>>)
         => \A o \in QueryGet(orders, req'.order_id) : \A u \in StaffOf(session[req'.sid]) :
              \A n \in QueryGet(orders', o.id) :
                  /\ n.payment_status = PAID
                  /\ n.payment_details = Some(u.username \o <<":", " ">> \o RawDetails)]_vars

\* C11, amended: the same, with payment_details = username, ": ", the details
\* with the surrounding whitespace trimmed; the order exists afterwards and a
\* second payment leaves nothing of the first.
C11_StoresTrimmedDetails ==
    [][(Served("enter_payment", "POST") /\ strip(RawDetails) # <<>>)
         => \A o \in QueryGet(orders, req'.order_id) : \A u \in StaffOf(session[req'.sid]) :
              /\ QueryGet(orders', o.id) # {}
              /\ resp' = Redirect("staff_dashboard", "Payment recorded.")
              /\ \A n \in QueryGet(orders', o.id) :
                   /\ n.payment_status = PAID
                   /\ n.payment_details =
                        Some(u.username \o <<":", " ">> \o strip(RawDetails))]_vars

\* the manager recorded " d " on an order and the order reads "mgr: d"
C11_PaddedDetailsRecorded ==
    /\ req.action = "enter_payment"
    /\ req.form = [payment_details |-> <<" ", "d", " ">>]
    /\ resp.flash = "Payment recorded."
    /\ \E o \in QueryGet(orders, req.order_id) :
         o.payment_details = Some(MGR \o <<":", " ", "d">>)

----------------------------------------------------------------------------
(* Refusals and what they leave (specification Spec).                      *)

\* the request last served was refused for its role
RoleRefused ==
    /\ req.action \in {"edit_order", "delete_order"}
    /\ resp = Redirect("staff_dashboard", "Permission denied.")

\* C12: an edit_order or delete_order of a manager's session is refused with
\* a redirect to the staff dashboard and leaves the session as it was; an
\* enter_payment with non-empty details on an existing order that the same
\* session sends next records the payment.
C12_ManagerKeepsIdentityAfterRefusal ==
    [][/\ ((Served("edit_order", "POST") \/ Served("edit_order", "GET")
              \/ Served("delete_order", "POST")) /\ IsManager(session[req'.sid]))
            => /\ resp' = Redirect("staff_dashboard", "Permission denied.")
               /\ session' = session
               /\ orders' = orders
       /\ (/\ RoleRefused
           /\ Served("enter_payment", "POST")
           /\ req'.sid = req.sid
           /\ strip(RawDetails) # <<>>
           /\ QueryGet(orders, req'.order_id) # {})
            => /\ resp' = Redirect("staff_dashboard", "Payment recorded.")
               /\ session' = session
               /\ \A n \in QueryGet(orders', req'.order_id) : n.payment_status = PAID]_vars

\* a manager's edit_order submit on an existing pending order was refused
C12_ManagerEditRefused ==
    /\ RoleRefused
    /\ req.action = "edit_order"
    /\ req.method = "POST"
    /\ IsManager(session[req.sid])
    /\ \E o \in QueryGet(orders, req.order_id) : o.payment_status = PENDING

\* C13: customer_dashboard and place_order from a session without a customer
\* phone are answered with a redirect to index and add no order, whatever the
\* form holds and also when the session holds a staff id; an order is added
\* to the store only by a place_order of a session that holds a customer phone.
C13_OnlyCustomersPlaceOrders ==
    [][/\ ((Served("customer_dashboard", "GET") \/ Served("place_order", "POST"))
              /\ ~HasCustomer(session[req'.sid]))
            => /\ resp' = Redirect("index", "")
               /\ orders' = orders
               /\ session' = session
       /\ (\E n \in orders' : QueryGet(orders, n.id) = {})
            => Served("place_order", "POST") /\ HasCustomer(session[req'.sid])]_vars

\* a place_order carrying a phone and an address, sent by a session that is
\* logged in as staff and holds no customer phone, was redirected to index
C13_StaffPlaceOrderRefused ==
    /\ req.action = "place_order"
    /\ req.form = [phone |-> <<"9", " ">>, address |-> <<" ", "x">>]
    /\ resp = Redirect("index", "")
    /\ StaffOf(session[req.sid]) # {}
    /\ ~HasCustomer(session[req.sid])

----------------------------------------------------------------------------
(* Establishing an identity (specification Spec).                          *)

\* the phone text of the request just served, as typed
RawPhone == Get(req'.form, "phone", <<>>)

\* C14, as claimed: route_send_otp with a phone p that is non-empty after
\* trimming succeeds and leaves p itself as the customer phone of the session.
C14_SessionHoldsPhoneAsTyped ==
    [][(Served("route_send_otp", "POST") /\ strip(RawPhone) # <<>>)
         => /\ resp' = Redirect("customer_dashboard", "Continuing with phone number.")
            /\ HasCustomer(session'[req'.sid])
            /\ session'[req'.sid]["customer_phone"] = RawPhone]_vars

\* C14, amended: route_send_otp with a phone p that is non-empty after
\* trimming succeeds and leaves p with its surrounding whitespace trimmed as
\* the customer phone of the session, in place of any phone held before; the
\* staff id of the session and the database are left as they were.
C14_SessionHoldsTrimmedPhone ==
    [][(Served("route_send_otp", "POST") /\ strip(RawPhone) # <<>>)
         => /\ resp' = Redirect("customer_dashboard", "Continuing with phone number.")
            /\ HasCustomer(session'[req'.sid])
            /\ session'[req'.sid]["customer_phone"] = strip(RawPhone)
            /\ HasStaff(session'[req'.sid]) = HasStaff(session[req'.sid])
            /\ orders' = orders /\ users' = users]_vars

\* " 9 " was sent by a session and the session holds the phone "9"
C14_PaddedPhoneAccepted ==
    /\ req.action = "route_send_otp"
    /\ req.form = [phone |-> <<" ", "9", " ">>]
    /\ resp.body = "customer_dashboard"
    /\ session[req.sid]["customer_phone"] = <<"9">>

\* the accounts whose username and password the form of the request just
\* served carries
Matching ==
    {u \in users :
        /\ u.username = Get(req'.form, "username", <<>>)
        /\ u.password_hash = generate_password_hash(Get(req'.form, "password", <<>>))}

\* C15: a route_send_otp with a missing, empty or all-whitespace phone and a
\* staff_login with an unknown username or a password that does not match
\* leave the session as it was; the staff id of a session is only ever set by
\* a staff_login POST whose username exists and whose password matches the
\* hash of that account, and it is set to the id of that account.
C15_RejectedLoginChangesNothing ==
    [][/\ (Served("route_send_otp", "POST") /\ strip(RawPhone) = <<>>)
            => /\ session' = session
               /\ resp' = Redirect("index", "Enter phone number.")
       /\ (Served("staff_login", "POST") /\ Matching = {})
            => /\ session' = session
               /\ resp' = Redirect("staff_login", "Invalid staff credentials.")
       /\ \A s \in DOMAIN session :
            (/\ HasStaff(session'[s])
             /\ ~HasStaff(session[s]) \/ session'[s]["staff_id"] # session[s]["staff_id"])
                => /\ Served("staff_login", "POST")
                   /\ req'.sid = s
                   /\ \E u \in Matching : session'[s]["staff_id"] = u.id]_vars

\* the admin's username with the manager's password was rejected in a
\* database that holds the admin, and the session holds no staff id
C15_WrongPasswordRejected ==
    /\ req.action = "staff_login"
    /\ req.form = [username |-> ADM, password |-> PW_MGR]
    /\ resp.flash = "Invalid staff credentials."
    /\ \E u \in users : u.username = ADM
    /\ ~HasStaff(session[req.sid])
    /\ HasCustomer(session[req.sid])

----------------------------------------------------------------------------
(* Ending a session, and stale staff ids (specification Spec).             *)

\* the step just taken served a request to a view behind require_customer
CustomerGuarded == req'.action \in {"customer_dashboard", "place_order"}

\* the step just taken served a request to a view behind require_staff
StaffGuarded ==
    req'.action \in {"staff_dashboard", "enter_payment", "edit_order", "delete_order"}

\* C17: logout leaves the session with neither a customer phone nor a staff
\* id; a session with neither is refused every guarded view, with the orders
\* unchanged, and gets an identity again only by a route_send_otp or a
\* staff_login POST; staff_logout removes the staff id only and leaves the
\* customer phone, the users and the orders as they were; on a session with
\* nothing to clear neither changes anything.
C17_LogoutClearsIdentity ==
    [][/\ Served("logout", "GET")
            => /\ session'[req'.sid] = EmptyDict
               /\ orders' = orders /\ users' = users
       /\ Served("staff_logout", "GET")
            => /\ ~HasStaff(session'[req'.sid])
               /\ HasCustomer(session'[req'.sid]) = HasCustomer(session[req'.sid])
               /\ HasCustomer(session[req'.sid])
                    => session'[req'.sid]["customer_phone"]
                         = session[req'.sid]["customer_phone"]
               /\ ~HasStaff(session[req'.sid]) => session' = session
               /\ orders' = orders /\ users' = users
       /\ \A s \in DOMAIN session :
            session[s] = EmptyDict
                => /\ (CustomerGuarded /\ req'.sid = s)
                        => resp' = Redirect("index", "") /\ orders' = orders
                   /\ (StaffGuarded /\ req'.sid = s)
                        => resp' = Redirect("staff_login", "") /\ orders' = orders
                   /\ session'[s] # EmptyDict
                        => /\ req'.sid = s
                           /\ Served("route_send_otp", "POST") \/ Served("staff_login", "POST")
                           /\ resp'.body \in {"customer_dashboard", "staff_dashboard"}]_vars

\* after a logout the session is empty while the database holds an order and
\* an account the session could have used
C17_LoggedOut ==
    /\ req.action = "logout"
    /\ session[req.sid] = EmptyDict
    /\ orders # {}
    /\ users # {}

\* C20: a view behind require_staff, requested by a session whose staff id
\* resolves to no account, is answered with a redirect to staff_login; the
\* staff id is removed from the session, the customer phone and the orders are
\* left as they were, and the answer is the same for an order id that does not
\* exist.
C20_StaleStaffIdDropped ==
    [][(/\ StaffGuarded
        /\ HasStaff(session[req'.sid])
        /\ StaffOf(session[req'.sid]) = {})
         => /\ resp' = Redirect("staff_login", "")
            /\ session'[req'.sid] = Pop(session[req'.sid], "staff_id")
            /\ orders' = orders /\ users' = users]_vars

\* a session holds a customer phone and a staff id that no account of the
\* database has, while the database holds accounts and an order
C20_StaleSession ==
    \E s \in DOMAIN session :
        /\ HasStaff(session[s])
        /\ HasCustomer(session[s])
        /\ StaffOf(session[s]) = {}
        /\ users # {}
        /\ orders # {}

----------------------------------------------------------------------------
(* The frame of an edit (specification SpecFields).                        *)

\* the form of the step just taken does not carry this field
Absent(field) == field \notin DOMAIN req'.form

\* C18: an edit_order POST leaves every field that its form does not carry,
\* and cans when its text is no number, with the value the order had; no step
\* changes the id, customer_phone or created_at of an order that stays in the
\* table.
C18_EditKeepsAbsentFields ==
    [][/\ \A o \in orders : \A n \in QueryGet(orders', o.id) :
            req'.action \notin {"place_order", "startup"}
                => /\ n.customer_phone = o.customer_phone
                   /\ n.created_at = o.created_at
       /\ \A o \in orders : EditSubmitted(o.id)
            => \A n \in QueryGet(orders', o.id) :
                 /\ Absent("customer_address") => n.customer_address = o.customer_address
                 /\ Absent("cans") => n.cans = o.cans
                 /\ (~Absent("cans") /\ ~int(req'.form["cans"]).ok) => n.cans = o.cans
                 /\ Absent("cooling") => n.cooling = o.cooling
                 /\ Absent("payment_method") => n.payment_method = o.payment_method
                 /\ Absent("payment_status") => n.payment_status = o.payment_status
                 /\ Absent("payment_details") => n.payment_details = o.payment_details]_vars

----------------------------------------------------------------------------
(* Deleting, and ids no order has (specification SpecDelete).              *)

\* the step just taken is a delete_order that removed order id
Deleted(id) ==
    /\ Served("delete_order", "POST")
    /\ req'.order_id = id
    /\ resp'.flash = "Order deleted."

\* the step just taken served a request for an order id that no order has
LookupMisses ==
    /\ req'.action \in {"view_order", "enter_payment", "edit_order", "delete_order"}
    /\ QueryGet(orders, req'.order_id) = {}

\* the session of the step just taken passes the guard of the view requested
PassesGuard ==
    \/ req'.action = "view_order"
    \/ req'.action = "enter_payment" /\ StaffOf(session[req'.sid]) # {}
    \/ req'.action \in {"edit_order", "delete_order"} /\ IsAdmin(session[req'.sid])

\* a deletion removes its order and no other
DeletesOneOrder ==
    \A o \in orders : Deleted(o.id) => orders' = orders \ {o} /\ QueryGet(orders', o.id) = {}

\* C16 as stated: a deletion removes its order and no other, and every
\* view_order, enter_payment, edit_order or delete_order on an id that no order
\* has is answered 404 with the orders unchanged, whoever asks.
C16_MissingIdAlwaysNotFound ==
    [][/\ DeletesOneOrder
       /\ LookupMisses
            => resp' = Response(404, "Not Found", "", <<>>) /\ orders' = orders]_vars

\* C16, amended: a deletion removes its order and no other, and a view_order,
\* enter_payment, edit_order or delete_order on an id that no order has is
\* answered 404 with the orders unchanged when the session passes the guard of
\* that view; a session that fails the guard gets the guard's redirect, with
\* the orders and the users unchanged.
C16_MissingIdNotFoundPastGuard ==
    [][/\ DeletesOneOrder
       /\ LookupMisses
            => /\ orders' = orders /\ users' = users
               /\ IF PassesGuard
                  THEN resp' = Response(404, "Not Found", "", <<>>) /\ session' = session
                  ELSE resp'.status = 302 /\ resp'.body \in {"staff_login", "staff_dashboard"}]_vars

\* an admin has just deleted an order that is now absent, beside another order
\* that stayed
C16_DeletedBesideAnother ==
    /\ req.action = "delete_order"
    /\ resp.flash = "Order deleted."
    /\ QueryGet(orders, req.order_id) = {}
    /\ orders # {}

----------------------------------------------------------------------------
(* Payments recorded at the same time (specification SpecRace).            *)

\* the step just taken is the commit of the request s had in flight
Committed(s) == db_session[s] # Null /\ db_session'[s] = Null

\* "<username>: <details>" of the request s has in flight, from the account s
\* is logged in as and the form s sent
OwnDetails(s) ==
    {Some(u.username \o <<":", " ">> \o strip(Get(db_session[s][1].rq.form, "payment_details", <<>>))) :
        u \in StaffOf(session[s])}

\* C19: when the enter_payment requests of two staff sessions overlap, each
\* commit leaves its order paid, with payment_details that are the whole
\* "<username>: <details>" of one request: those of the committing request
\* when it writes them, and otherwise (the order already carried the same
\* text when the request loaded it) whatever the write committed last left;
\* no other order and no other field changes.
C19_LastCommittedWriteWins ==
    [][\A s \in DOMAIN db_session : Committed(s) =>
          LET t == db_session[s][1]
          IN  \A o \in QueryGet(orders, t.rq.order_id) :
                /\ orders \ {o} \subseteq orders'
                /\ Cardinality(orders') = Cardinality(orders)
                /\ \A n \in QueryGet(orders', o.id) :
                     /\ n = [o EXCEPT !.payment_status = n.payment_status,
                                      !.payment_details = n.payment_details]
                     /\ n.payment_status = PAID
                     /\ n.payment_details \in OwnDetails(s) \cup {o.payment_details}
                     /\ n.payment_details \notin OwnDetails(s)
                          => /\ t.loaded.payment_details \in OwnDetails(s)
                             /\ o.payment_status = PAID]_vars

\* the manager's request has just committed its payment on an order that the
\* admin's request loaded while it was pending and has not committed yet;
\* another order is still pending
C19_OverlappingPaymentsCommitted ==
    /\ req.action = "enter_payment" /\ req.sid = "s2"
    /\ db_session["s2"] = Null
    /\ \E o \in QueryGet(orders, req.order_id) :
         /\ o.payment_status = PAID
         /\ HasPrefix(o.payment_details[1], MGR)
    /\ \E o \in orders : o.payment_status = PENDING
    /\ db_session["s1"] # Null
    /\ db_session["s1"][1].rq.order_id = req.order_id
    /\ db_session["s1"][1].loaded.payment_status = PENDING

====
